---------------------------- MODULE Spec2Model ----------------------------
(***************************************************************************)
(* Model of the thread extraction engine of app.py: the reference          *)
(* resolver (resolve_ref), the comment and deal-metadata extraction and    *)
(* the pagination/caching handler scrape_comments, together with the two   *)
(* other handlers that touch the cache file: chat_with_data, delete_files.  *)
(*                                                                         *)
(* Strings are sequences of one-character strings, so that the dedup key   *)
(* f"{author}|{date}|{text}" is a real concatenation.                      *)
(***************************************************************************)
EXTENDS Integers, Sequences, FiniteSets, TLC

(***************************************************************************)
(* JSON values.  Every value has the same shape [t, n, s, f]:              *)
(*   t  the Python type after json.loads: "null" (None), "bool", "int",    *)
(*      "float", "str", "obj" (dict), and "miss" for a key that a dict     *)
(*      does not have;                                                     *)
(*   n  the number of an int/float, 1/0 for True/False;                    *)
(*   s  the characters of a str;                                           *)
(*   f  the fields of a dict, each holding a scalar value [t, n, s].       *)
(***************************************************************************)
Fields ==
    {"mainDesktopBlock", "dealTitle", "bodyHtml", "commentText", "author",
     "timestampFormatted", "commentContent", "commentAuthor", "username",
     "htmlContent", "commentSectionCommentFooter"}

Miss == [t |-> "miss", n |-> 0, s |-> <<>>]
SNull == [t |-> "null", n |-> 0, s |-> <<>>]
SInt(i) == [t |-> "int", n |-> i, s |-> <<>>]
SBool(b) == [t |-> "bool", n |-> IF b THEN 1 ELSE 0, s |-> <<>>]
SFloat(i) == [t |-> "float", n |-> i, s |-> <<>>]
SStr(cs) == [t |-> "str", n |-> 0, s |-> cs]

NoFields == [k \in Fields |-> Miss]
Lift(v) == [t |-> v.t, n |-> v.n, s |-> v.s, f |-> NoFields]

JNull == Lift(SNull)
JInt(i) == Lift(SInt(i))
JBool(b) == Lift(SBool(b))
JStr(cs) == Lift(SStr(cs))
JObj(r) ==
    [t |-> "obj", n |-> 0, s |-> <<>>,
     f |-> [k \in Fields |-> IF k \in DOMAIN r THEN r[k] ELSE Miss]]

\* 'key' in item
HasKey(item, key) == item.f[key].t # "miss"
\* item.get(key) / item[key], as a full JSON value
Get(item, key) == IF HasKey(item, key) THEN Lift(item.f[key]) ELSE JNull
\* isinstance(x, dict)
IsDict(x) == x.t = "obj"
\* isinstance(x, str)
IsStr(x) == x.t = "str"
\* isinstance(x, int): in Python bool is a subclass of int
IsInstanceInt(x) == x.t \in {"int", "bool"}

\* Python truthiness, used by the `x or ""` idiom
Truthy(x) ==
    CASE x.t = "null" -> FALSE
      [] x.t = "miss" -> FALSE
      [] x.t = "bool" -> x.n = 1
      [] x.t = "int" -> x.n # 0
      [] x.t = "float" -> x.n # 0
      [] x.t = "str" -> x.s # <<>>
      [] x.t = "obj" -> \E k \in Fields : HasKey(x, k)

OrEmpty(x) == IF Truthy(x) THEN x ELSE JStr(<<>>)

(***************************************************************************)
(* resolve_ref(data, index): data is a sequence of JSON values, 1-based    *)
(* here, so Python's data[i] is data[i + 1].  None is JNull.               *)
(***************************************************************************)
resolve_ref(data, index) ==
    IF IsInstanceInt(index) /\ 0 <= index.n /\ index.n < Len(data)
    THEN data[index.n + 1]
    ELSE JNull


(***************************************************************************)
(* str() as applied by the f-string of the dedup key.                      *)
(***************************************************************************)
RECURSIVE Digits(_)
Digits(n) ==
    IF n < 10
    THEN <<CASE n = 0 -> "0" [] n = 1 -> "1" [] n = 2 -> "2" [] n = 3 -> "3"
             [] n = 4 -> "4" [] n = 5 -> "5" [] n = 6 -> "6" [] n = 7 -> "7"
             [] n = 8 -> "8" [] n = 9 -> "9">>
    ELSE Digits(n \div 10) \o Digits(n % 10)

IntStr(n) == IF n < 0 THEN <<"-">> \o Digits(0 - n) ELSE Digits(n)

\* repr() of a scalar held in a dict field
ScalarRepr(v) ==
    CASE v.t = "null" -> <<"N", "o", "n", "e">>
      [] v.t = "bool" -> IF v.n = 1 THEN <<"T", "r", "u", "e">>
                         ELSE <<"F", "a", "l", "s", "e">>
      [] v.t = "int" -> IntStr(v.n)
      [] v.t = "float" -> IntStr(v.n) \o <<".", "0">>
      [] v.t = "str" -> <<"'">> \o v.s \o <<"'">>
      [] v.t = "miss" -> <<>>

\* the keys of a dict in document order (the model fixes one order)
FieldOrder ==
    <<"mainDesktopBlock", "dealTitle", "bodyHtml", "commentText", "author",
      "timestampFormatted", "commentContent", "commentAuthor", "username",
      "htmlContent", "commentSectionCommentFooter">>

RECURSIVE DictRepr(_, _, _)
DictRepr(x, i, first) ==
    IF i > Len(FieldOrder) THEN <<"}">>
    ELSE IF HasKey(x, FieldOrder[i])
         THEN (IF first THEN <<>> ELSE <<",", " ">>)
              \o <<"'", FieldOrder[i], "'", ":", " ">>
              \o ScalarRepr(x.f[FieldOrder[i]])
              \o DictRepr(x, i + 1, FALSE)
         ELSE DictRepr(x, i + 1, first)

Format(x) ==
    CASE x.t = "str" -> x.s
      [] x.t = "obj" -> <<"{">> \o DictRepr(x, 1, TRUE)
      [] OTHER -> ScalarRepr([t |-> x.t, n |-> x.n, s |-> x.s])

\* f"{author}|{date}|{text}"; hash() is taken to be collision-free on the
\* strings of the model, so the hash of the key is the key itself
comment_hash(author, date, text) ==
    Format(author) \o <<"|">> \o Format(date) \o <<"|">> \o Format(text)

(***************************************************************************)
(* Deal description clean-up: re.sub(r'<[^>]+>', ' ', s), then             *)
(* re.sub(r'\s+', ' ', s).strip().                                         *)
(***************************************************************************)
IsSpace(c) == c \in {" ", "\n", "\t"}

\* position of the '>' closing a tag opened at i, or 0 when '<' at i opens none
TagEnd(s, i) ==
    LET closers == {j \in (i + 1)..Len(s) : s[j] = ">"}
    IN  IF closers = {} THEN 0
        ELSE LET j == CHOOSE k \in closers : \A m \in closers : k <= m
             IN  IF j >= i + 2 THEN j ELSE 0

RECURSIVE StripTagsFrom(_, _)
StripTagsFrom(s, i) ==
    IF i > Len(s) THEN <<>>
    ELSE IF s[i] = "<" /\ TagEnd(s, i) # 0
         THEN <<" ">> \o StripTagsFrom(s, TagEnd(s, i) + 1)
         ELSE <<s[i]>> \o StripTagsFrom(s, i + 1)

RECURSIVE CollapseFrom(_, _)
CollapseFrom(s, i) ==
    IF i > Len(s) THEN <<>>
    ELSE IF IsSpace(s[i])
         THEN IF i > 1 /\ IsSpace(s[i - 1]) THEN CollapseFrom(s, i + 1)
              ELSE <<" ">> \o CollapseFrom(s, i + 1)
         ELSE <<s[i]>> \o CollapseFrom(s, i + 1)

RECURSIVE Strip(_)
Strip(s) ==
    IF s = <<>> THEN s
    ELSE IF IsSpace(s[1]) THEN Strip(Tail(s))
    ELSE IF IsSpace(s[Len(s)]) THEN Strip(SubSeq(s, 1, Len(s) - 1))
    ELSE s

clean_text(body_html) == Strip(CollapseFrom(StripTagsFrom(body_html, 1), 1))

(***************************************************************************)
(* Deal metadata extraction (page 1).  data is the sequence the loops      *)
(* iterate over.                                                           *)
(***************************************************************************)
ExtractMeta(data) ==
    LET blocks == {i \in 1..Len(data) :
                      IsDict(data[i]) /\ HasKey(data[i], "mainDesktopBlock")}
        found == blocks # {}
        first == CHOOSE i \in blocks : \A j \in blocks : i <= j
        main_block_idx == Get(data[first], "mainDesktopBlock")
        isMinusOne == main_block_idx.t \in {"int", "float"} /\ main_block_idx.n = -1
        main_block == resolve_ref(data, main_block_idx)
        usable == found /\ ~isMinusOne /\ IsDict(main_block)
        title_val == resolve_ref(data, Get(main_block, "dealTitle"))
        body_html == resolve_ref(data, Get(main_block, "bodyHtml"))
    IN  [deal_title |->
            IF usable /\ HasKey(main_block, "dealTitle") /\ IsStr(title_val)
            THEN title_val.s ELSE <<>>,
         deal_description |->
            IF usable /\ HasKey(main_block, "bodyHtml") /\ IsStr(body_html)
            THEN clean_text(body_html.s) ELSE <<>>]

(***************************************************************************)
(* Comment extraction.                                                     *)
(***************************************************************************)
\* the two-level text resolution shared by both shapes
ResolveText(data, text_idx) ==
    LET raw_text_obj == resolve_ref(data, text_idx)
    IN  IF IsDict(raw_text_obj) /\ HasKey(raw_text_obj, "htmlContent")
        THEN OrEmpty(resolve_ref(data, Get(raw_text_obj, "htmlContent")))
        ELSE OrEmpty(raw_text_obj)

IsFeatured(item) ==
    IsDict(item) /\ HasKey(item, "commentText") /\ HasKey(item, "author")

IsMain(item) ==
    IsDict(item) /\ HasKey(item, "commentContent") /\ HasKey(item, "commentAuthor")

FeaturedComment(data, item) ==
    [type |-> "Featured",
     author |-> OrEmpty(resolve_ref(data, Get(item, "author"))),
     text |-> ResolveText(data, Get(item, "commentText")),
     date |-> IF HasKey(item, "timestampFormatted")
              THEN OrEmpty(resolve_ref(data, Get(item, "timestampFormatted")))
              ELSE JStr(<<>>)]

MainComment(data, item) ==
    LET author_obj == resolve_ref(data, Get(item, "commentAuthor"))
        footer_obj == resolve_ref(data, Get(item, "commentSectionCommentFooter"))
    IN  [type |-> "Main",
         author |-> IF IsDict(author_obj) /\ HasKey(author_obj, "username")
                    THEN OrEmpty(resolve_ref(data, Get(author_obj, "username")))
                    ELSE JStr(<<>>),
         text |-> ResolveText(data, Get(item, "commentContent")),
         date |-> IF HasKey(item, "commentSectionCommentFooter")
                     /\ IsDict(footer_obj)
                     /\ HasKey(footer_obj, "timestampFormatted")
                  THEN OrEmpty(resolve_ref(data, Get(footer_obj, "timestampFormatted")))
                  ELSE JStr(<<>>)]

CommentKey(c) == comment_hash(c.author, c.date, c.text)

\* st = [seen, new, page_comments]: the `if comment_hash not in seen` block
AddAlways(st, c) ==
    [seen |-> st.seen \cup {CommentKey(c)},
     new |-> st.new + 1,
     page_comments |-> Append(st.page_comments, c)]

AddIfNew(st, c) ==
    IF CommentKey(c) \notin st.seen
    THEN [seen |-> st.seen \cup {CommentKey(c)},
          new |-> st.new + 1,
          page_comments |-> Append(st.page_comments, c)]
    ELSE st

\* one iteration of `for item in data`
ExtractItemElif(data, item, st) ==
    IF IsFeatured(item) THEN AddIfNew(st, FeaturedComment(data, item))
    ELSE IF IsMain(item) THEN AddIfNew(st, MainComment(data, item))
    ELSE st

ExtractItem(data, item, st) ==
    LET st1 == IF IsFeatured(item) THEN AddIfNew(st, FeaturedComment(data, item))
               ELSE st
    IN  IF IsMain(item) THEN AddIfNew(st1, MainComment(data, item)) ELSE st1

RECURSIVE ExtractFrom(_, _, _)
ExtractFrom(data, i, st) ==
    IF i > Len(data) THEN st
    ELSE ExtractFrom(data, i + 1, ExtractItem(data, data[i], st))

\* the comment extractor on one page, given the running dedup set
ExtractPage(data, seen) ==
    ExtractFrom(data, 1, [seen |-> seen, new |-> 0, page_comments |-> <<>>])

(***************************************************************************)
(* The pages the forum can serve.  Each document is a reference-indexed    *)
(* array as json.loads returns it; the comments give Python's 0-based      *)
(* index of each element.                                                  *)
(***************************************************************************)
\* A first page: metadata, a Main comment with two-level text, a Featured
\* object carrying the same (author, date, text), a Main comment with
\* direct text and no footer.
Doc1 ==
    << JObj([mainDesktopBlock |-> SInt(1)]),                       \* 0
       JObj([dealTitle |-> SInt(2), bodyHtml |-> SInt(3)]),        \* 1
       JStr(<<"T">>),                                              \* 2
       JStr(<<"<", "b", ">", "x", "<", "/", "b", ">", " ", "y">>), \* 3
       JObj([commentContent |-> SInt(5), commentAuthor |-> SInt(6),
             commentSectionCommentFooter |-> SInt(8)]),            \* 4
       JObj([htmlContent |-> SInt(10)]),                           \* 5
       JObj([username |-> SInt(7)]),                               \* 6
       JStr(<<"a">>),                                              \* 7
       JObj([timestampFormatted |-> SInt(9)]),                     \* 8
       JStr(<<"d">>),                                              \* 9
       JStr(<<"x">>),                                              \* 10
       JObj([commentText |-> SInt(10), author |-> SInt(7),
             timestampFormatted |-> SInt(9)]),                     \* 11
       JObj([commentContent |-> SInt(13), commentAuthor |-> SInt(6)]), \* 12
       JStr(<<"y">>) >>                                            \* 13

\* A later page: other metadata, one object of both shapes, and a Main
\* comment that Doc1 also carries.
Doc2 ==
    << JObj([mainDesktopBlock |-> SInt(1)]),                       \* 0
       JObj([dealTitle |-> SInt(2)]),                              \* 1
       JStr(<<"U">>),                                              \* 2
       JObj([commentText |-> SInt(4), author |-> SInt(5),
             commentContent |-> SInt(6), commentAuthor |-> SInt(7)]), \* 3
       JStr(<<"f">>),                                              \* 4
       JStr(<<"b">>),                                              \* 5
       JStr(<<"m">>),                                              \* 6
       JObj([username |-> SInt(5)]),                               \* 7
       JObj([commentContent |-> SInt(9), commentAuthor |-> SInt(10)]), \* 8
       JStr(<<"y">>),                                              \* 9
       JObj([username |-> SInt(11)]),                              \* 10
       JStr(<<"a">>) >>                                            \* 11

\* A page of irregular objects: fields holding '|', references that are
\* out of range, negative, boolean, float, string or null, and no metadata.
Doc3 ==
    << JStr(<<"a", "|">>),                                         \* 0
       JStr(<<"a">>),                                              \* 1
       JStr(<<"|">>),                                              \* 2
       JObj([commentText |-> SInt(9), author |-> SInt(0)]),        \* 3
       JObj([commentText |-> SInt(-1), author |-> SInt(1),
             timestampFormatted |-> SInt(2)]),                     \* 4
       JObj([commentText |-> SBool(TRUE), author |-> SBool(FALSE)]), \* 5
       JObj([commentText |-> SStr(<<"1">>), author |-> SFloat(1)]), \* 6
       JObj([commentContent |-> SNull, commentAuthor |-> SNull]),  \* 7
       JInt(5) >>                                                  \* 8

\* A page with objects but no comment of either shape.
DocNone ==
    << JObj([author |-> SInt(1)]), JStr(<<"a">>) >>

\* A payload that is a JSON object or string: the loops iterate its keys or
\* characters, which are strings.
DocDict ==
    << JStr(<<"k">>) >>

(***************************************************************************)
(* What one requests.get can bring back (lines 306-344):                   *)
(*   kind     "fail" (get or raise_for_status raises) or "ok";             *)
(*   final    the page parameter of response.url: an integer, 0 for a      *)
(*            parameter that is not an integer, -1 for no parameter;       *)
(*   payload  "nomarker" (regex does not match), "badjson" (JSONDecodeError),*)
(*            "scalar" (a JSON number, boolean or null), "dict", or the     *)
(*            name of one of the arrays above.                             *)
(***************************************************************************)
ArrayNames == {"doc1", "doc2", "doc3", "docnone"}
IterableNames == ArrayNames \cup {"dict"}
PayloadNames == IterableNames \cup {"nomarker", "badjson", "scalar"}

Body(name) ==
    CASE name = "doc1" -> Doc1
      [] name = "doc2" -> Doc2
      [] name = "doc3" -> Doc3
      [] name = "docnone" -> DocNone
      [] name = "dict" -> DocDict

\* the deepest pagination a request of the model asks for
MaxPages == 3

FailResponse == [kind |-> "fail", qs |-> "none", final |-> 0, payload |-> "nomarker"]

\* What the fetch of page pg can bring back.  qs says whether response.url
\* has a page parameter and whether int() accepts it; final is its value when
\* it does.  A response that ends on another page than the one asked for
\* carries the first page's document: its payload is never looked at.
Responses(pg) ==
    {FailResponse}
    \cup {[kind |-> "ok", qs |-> q, final |-> 0, payload |-> "doc1"] :
             q \in {"none", "nonint"}}
    \cup {[kind |-> "ok", qs |-> "int", final |-> k, payload |-> "doc1"] :
             k \in (1..MaxPages) \ {pg}}
    \cup {[kind |-> "ok", qs |-> "int", final |-> pg, payload |-> b] :
             b \in PayloadNames}

NoResponse == [kind |-> "none", qs |-> "none", final |-> 0, payload |-> "nomarker"]

(***************************************************************************)
(* State.                                                                  *)
(*   cache        the cache file of the thread: st is "none" (no file),    *)
(*                "bad" (a file json.load or the depth test chokes on) or  *)
(*                "ok" with the Deal record rec.  deal_summary is <<>> when *)
(*                the key is absent and <<text>> when present.             *)
(*   pc, req ...  each in-flight scrape_comments call: its position, its   *)
(*                request and its local variables.                         *)
(*   fetches      the number of requests.get calls the call has made.      *)
(*   ret          what the last finished scrape_comments call gave back.   *)
(*   resolved     the arguments and the result of the last direct call of  *)
(*                resolve_ref (used by the resolver's own specification).  *)
(***************************************************************************)
VARIABLES cache, pc, req, page, all_comments, seen_comments_hashes,
          deal_title, deal_description, response, fetches, ret, resolved

vars == <<cache, pc, req, page, all_comments, seen_comments_hashes,
          deal_title, deal_description, response, fetches, ret, resolved>>

locals == <<pc, req, page, all_comments, seen_comments_hashes,
            deal_title, deal_description, response, fetches>>

Procs == {"r1", "r2"}

Filename == "deal_1.json"

SummaryTexts == {<<"s">>}

EmptyRec ==
    [deal_title |-> <<>>, deal_description |-> <<>>, count |-> 0,
     comments |-> <<>>, saved_to |-> Filename, source |-> "scrape",
     max_pages_request |-> 0, deal_summary |-> <<>>]

NoFile == [st |-> "none", rec |-> EmptyRec]
BadFile == [st |-> "bad", rec |-> EmptyRec]

IdleReq == [max_pages |-> 0, force_refresh |-> FALSE]
Requests == [max_pages : 0..MaxPages, force_refresh : BOOLEAN]

NoRet == [by |-> "none", kind |-> "none", req |-> IdleReq, record |-> EmptyRec,
          fetches |-> 0]

AllIdle == \A q \in Procs : pc[q] = "idle"

Init ==
    /\ cache \in {NoFile, BadFile}
    /\ pc = [p \in Procs |-> "idle"]
    /\ req = [p \in Procs |-> IdleReq]
    /\ page = [p \in Procs |-> 0]
    /\ all_comments = [p \in Procs |-> <<>>]
    /\ seen_comments_hashes = [p \in Procs |-> {}]
    /\ deal_title = [p \in Procs |-> <<>>]
    /\ deal_description = [p \in Procs |-> <<>>]
    /\ response = [p \in Procs |-> NoResponse]
    /\ fetches = [p \in Procs |-> 0]
    /\ ret = NoRet
    /\ resolved = [data |-> <<>>, index |-> JNull, result |-> JNull]

\* the locals of p once its call has returned or raised
Forget(p) ==
    /\ pc' = [pc EXCEPT ![p] = "idle"]
    /\ req' = [req EXCEPT ![p] = IdleReq]
    /\ page' = [page EXCEPT ![p] = 0]
    /\ all_comments' = [all_comments EXCEPT ![p] = <<>>]
    /\ seen_comments_hashes' = [seen_comments_hashes EXCEPT ![p] = {}]
    /\ deal_title' = [deal_title EXCEPT ![p] = <<>>]
    /\ deal_description' = [deal_description EXCEPT ![p] = <<>>]
    /\ response' = [response EXCEPT ![p] = NoResponse]
    /\ fetches' = [fetches EXCEPT ![p] = 0]

(***************************************************************************)
(* scrape_comments, lines 276-292: the cache check.                        *)
(***************************************************************************)
\* `max_pages > cached_max_pages` is false
DeepEnoughStrict(max_pages, cached_data) ==
    max_pages < cached_data.max_pages_request

DeepEnoughInverted(max_pages, cached_data) ==
    ~(max_pages < cached_data.max_pages_request)

DeepEnough(max_pages, cached_data) ==
    ~(max_pages > cached_data.max_pages_request)

ServedFromCache(r, file) ==
    /\ ~r.force_refresh
    /\ file.st = "ok"
    /\ DeepEnough(r.max_pages, file.rec)

CachedReplyKnownFields(cached_data) ==
    [cached_data EXCEPT !.source = "cache", !.deal_summary = <<>>]

CachedReply(cached_data) ==
    [cached_data EXCEPT !.source = "cache"]

Start(p, r) ==
    /\ pc[p] = "idle"
    /\ IF ServedFromCache(r, cache)
       THEN /\ ret' = [by |-> p, kind |-> "cached", req |-> r,
                       record |-> CachedReply(cache.rec), fetches |-> 0]
            /\ UNCHANGED <<cache, locals>>
       ELSE /\ pc' = [pc EXCEPT ![p] = IF r.max_pages >= 1 THEN "loop" ELSE "write"]
            /\ req' = [req EXCEPT ![p] = r]
            /\ page' = [page EXCEPT ![p] = 1]
            /\ ret' = NoRet
            /\ UNCHANGED <<cache, all_comments, seen_comments_hashes,
                           deal_title, deal_description, response, fetches>>

(***************************************************************************)
(* scrape_comments, lines 298-468: one iteration of the page loop.         *)
(***************************************************************************)
\* lines 305-329: the fetch raises, or the redirect check breaks
FetchStopsParamOnly(pg, resp) ==
    \/ resp.kind = "fail"
    \/ pg > 1 /\ resp.qs = "int" /\ resp.final # pg

FetchStops(pg, resp) ==
    \/ resp.kind = "fail"
    \/ /\ pg > 1
       /\ \/ resp.qs = "none"
          \/ resp.qs = "nonint"
          \/ resp.qs = "int" /\ resp.final # pg

\* lines 331-344: no payload marker, or the payload is not JSON
ParseStops(resp) == resp.payload \in {"nomarker", "badjson"}

\* line 382: `for item in data` on a number, boolean or null raises TypeError
\* outside every try block
IterationRaises(resp) == resp.payload = "scalar"

\* lines 464-468
NoNewStopNever(st) == FALSE

NoNewStop(st) == st.new = 0

ExtendReplace(all, st) == IF NoNewStop(st) THEN all ELSE st.page_comments

Extend(all, st) == IF NoNewStop(st) THEN all ELSE all \o st.page_comments

\* line 347: the metadata block runs on page 1 only
MetaEveryPage(pg, current, extracted) == extracted

MetaOnPageOne(pg, current, extracted) == IF pg = 1 THEN extracted ELSE current

ScrapePage(p, resp) ==
    /\ pc[p] = "loop"
    /\ UNCHANGED cache
    /\ IF FetchStops(page[p], resp) \/ ParseStops(resp)
       THEN /\ pc' = [pc EXCEPT ![p] = "write"]
            /\ fetches' = [fetches EXCEPT ![p] = @ + 1]
            /\ response' = [response EXCEPT ![p] = resp]
            /\ UNCHANGED <<req, page, all_comments, seen_comments_hashes,
                           deal_title, deal_description, ret>>
       ELSE IF IterationRaises(resp)
       THEN /\ pc' = [pc EXCEPT ![p] = "raise"]
            /\ fetches' = [fetches EXCEPT ![p] = @ + 1]
            /\ response' = [response EXCEPT ![p] = resp]
            /\ UNCHANGED <<req, page, all_comments, seen_comments_hashes,
                           deal_title, deal_description, ret>>
       ELSE LET data == Body(resp.payload)
                meta == ExtractMeta(data)
                st == ExtractPage(data, seen_comments_hashes[p])
            IN  /\ fetches' = [fetches EXCEPT ![p] = @ + 1]
                /\ response' = [response EXCEPT ![p] = resp]
                /\ UNCHANGED <<req, ret>>
                /\ deal_title' =
                      [deal_title EXCEPT ![p] =
                          MetaOnPageOne(page[p], @, meta.deal_title)]
                /\ deal_description' =
                      [deal_description EXCEPT ![p] =
                          MetaOnPageOne(page[p], @, meta.deal_description)]
                /\ seen_comments_hashes' =
                      [seen_comments_hashes EXCEPT ![p] = st.seen]
                /\ all_comments' =
                      [all_comments EXCEPT ![p] = Extend(@, st)]
                /\ IF NoNewStop(st) \/ page[p] + 1 > req[p].max_pages
                   THEN /\ pc' = [pc EXCEPT ![p] = "write"]
                        /\ page' = page
                   ELSE /\ pc' = pc
                        /\ page' = [page EXCEPT ![p] = @ + 1]

(***************************************************************************)
(* scrape_comments, lines 470-483: build the record, write the cache file, *)
(* return.                                                                 *)
(***************************************************************************)
BuildResultCountPages(title, description, comments, max_pages) ==
    [deal_title |-> title, deal_description |-> description,
     count |-> max_pages, comments |-> comments,
     saved_to |-> Filename, source |-> "scrape",
     max_pages_request |-> max_pages, deal_summary |-> <<>>]

BuildResultDepthIfAny(title, description, comments, max_pages) ==
    [deal_title |-> title, deal_description |-> description,
     count |-> Len(comments), comments |-> comments,
     saved_to |-> Filename, source |-> "scrape",
     max_pages_request |-> IF comments = <<>> THEN 0 ELSE max_pages,
     deal_summary |-> <<>>]

BuildResult(title, description, comments, max_pages) ==
    [deal_title |-> title, deal_description |-> description,
     count |-> Len(comments), comments |-> comments,
     saved_to |-> Filename, source |-> "scrape",
     max_pages_request |-> max_pages, deal_summary |-> <<>>]

FinishRechecks(p) ==
    /\ pc[p] = "write"
    /\ LET result == BuildResult(deal_title[p], deal_description[p],
                                 all_comments[p], req[p].max_pages)
       IN  /\ cache' = IF ServedFromCache(req[p], cache) THEN cache
                       ELSE [st |-> "ok", rec |-> result]
           /\ ret' = [by |-> p, kind |-> "scraped", req |-> req[p],
                      record |-> result, fetches |-> fetches[p]]
    /\ Forget(p)

Finish(p) ==
    /\ pc[p] = "write"
    /\ LET result == BuildResult(deal_title[p], deal_description[p],
                                 all_comments[p], req[p].max_pages)
       IN  /\ cache' = [st |-> "ok", rec |-> result]
           /\ ret' = [by |-> p, kind |-> "scraped", req |-> req[p],
                      record |-> result, fetches |-> fetches[p]]
    /\ Forget(p)

\* the TypeError of line 382 leaves the handler: nothing is written or returned
Abort(p) ==
    /\ pc[p] = "raise"
    /\ ret' = [by |-> p, kind |-> "raised", req |-> req[p],
               record |-> EmptyRec, fetches |-> fetches[p]]
    /\ UNCHANGED cache
    /\ Forget(p)

(***************************************************************************)
(* chat_with_data, lines 128-167: with use_summary and no non-empty        *)
(* deal_summary in the file, a generated summary is stored in the file.    *)
(* Every other path of the handler leaves the file alone.                  *)
(***************************************************************************)
HasSummary(data) ==
    data.deal_summary # <<>> /\ data.deal_summary[1] # <<>>

ChatSummary(text) ==
    /\ cache.st = "ok"
    /\ ~HasSummary(cache.rec)
    /\ cache' = [cache EXCEPT !.rec.deal_summary = <<text>>]
    /\ UNCHANGED <<locals, ret>>

(***************************************************************************)
(* delete_files / delete_all_files, lines 83-121: remove the file.         *)
(***************************************************************************)
DeleteFile ==
    /\ cache.st # "none"
    /\ cache' = NoFile
    /\ UNCHANGED <<locals, ret>>

(***************************************************************************)
(* The handlers are `async def` bodies without an await and run on one     *)
(* event loop (uvicorn.run, line 487): a handler starts only when no other *)
(* is in flight.                                                           *)
(***************************************************************************)
StartStep == \E p \in Procs, r \in Requests : AllIdle /\ Start(p, r)
PageStep == \E p \in Procs : \E resp \in Responses(page[p]) : ScrapePage(p, resp)
FinishStep == \E p \in Procs : Finish(p)
AbortStep == \E p \in Procs : Abort(p)
ChatStep == \E text \in SummaryTexts : AllIdle /\ ChatSummary(text)
DeleteStep == AllIdle /\ DeleteFile

Next ==
    \/ StartStep /\ UNCHANGED resolved
    \/ PageStep /\ UNCHANGED resolved
    \/ FinishStep /\ UNCHANGED resolved
    \/ AbortStep /\ UNCHANGED resolved
    \/ ChatStep /\ UNCHANGED resolved
    \/ DeleteStep /\ UNCHANGED resolved

Spec == Init /\ [][Next]_vars

(***************************************************************************)
(* Several server processes on one scraped_data directory (the module      *)
(* object `app` served by more than one worker): the handlers hold no lock *)
(* on the cache file, so the steps of two scrape_comments calls for the    *)
(* same thread interleave freely.  The cache check of lines 276-292 and    *)
(* the write of lines 480-481 are each taken as one step.                  *)
(***************************************************************************)
RaceMaxPages == 2

RaceRequests == [max_pages : 0..RaceMaxPages, force_refresh : BOOLEAN]

RacePayloads == {"doc1", "doc2", "scalar"}

RaceResponses(pg) ==
    {FailResponse}
    \cup {[kind |-> "ok", qs |-> "int", final |-> pg, payload |-> b] :
             b \in RacePayloads}

RaceStartStep == \E p \in Procs, r \in RaceRequests : Start(p, r)
RacePageStep ==
    \E p \in Procs : \E resp \in RaceResponses(page[p]) : ScrapePage(p, resp)

RaceNext ==
    \/ RaceStartStep /\ UNCHANGED resolved
    \/ RacePageStep /\ UNCHANGED resolved
    \/ FinishStep /\ UNCHANGED resolved
    \/ AbortStep /\ UNCHANGED resolved

SpecRace == Init /\ [][RaceNext]_vars

(***************************************************************************)
(* The resolver on its own: resolve_ref applied to every array of at most  *)
(* MaxData values and every index value of IndexValues.                    *)
(***************************************************************************)
MaxData == 2

DataValues == {JStr(<<"a">>), JNull, JObj([username |-> SInt(0)])}

DataArrays == UNION {[1..n -> DataValues] : n \in 0..MaxData}

IndexValues ==
    {JInt(i) : i \in (0 - MaxData - 1)..(MaxData + 1)}
    \cup {JBool(TRUE), JBool(FALSE), JNull, JStr(<<"0">>), JStr(<<"a">>),
          Lift(SFloat(0)), Lift(SFloat(1)), JObj([username |-> SInt(0)])}

ResolveCall(data, index) ==
    /\ resolved' = [data |-> data, index |-> index,
                    result |-> resolve_ref(data, index)]
    /\ UNCHANGED <<cache, locals, ret>>

ResolveNext == \E data \in DataArrays, index \in IndexValues : ResolveCall(data, index)

SpecResolve == Init /\ [][ResolveNext]_vars

TypeOK ==
    /\ cache.st \in {"none", "bad", "ok"}
    /\ \A p \in Procs : pc[p] \in {"idle", "loop", "write", "raise"}


(***************************************************************************)
(* Properties.                                                             *)
(***************************************************************************)
\* the step is the arrival of a scrape request at p
StartedBy(p) ==
    pc[p] = "idle" /\ (pc'[p] # "idle" \/ (ret' # ret /\ ret'.by = p))

\* the request that arrives in such a step
StartReq(p) == IF pc'[p] # "idle" THEN req'[p] ELSE ret'.req

\* the step is one iteration of p's page loop
Iterated(p) == pc[p] = "loop" /\ fetches'[p] = fetches[p] + 1

\* response.url of a fetch of page pg names another page or none
Redirected(pg, resp) ==
    resp.kind = "ok" /\ (resp.qs # "int" \/ resp.final # pg)

\* from a stopped loop the call fetches nothing more and returns the aggregate
StaysStopped(p) ==
    \/ /\ pc'[p] = "write"
       /\ fetches'[p] = fetches[p]
       /\ all_comments'[p] = all_comments[p]
    \/ /\ pc'[p] = "idle"
       /\ ret'.by = p
       /\ ret'.kind = "scraped"
       /\ ret'.record.comments = all_comments[p]
       /\ ret'.fetches = fetches[p]

\* C1: a request without force_refresh that finds a readable cache entry at
\* least as deep as it asks for returns that entry with only source changed
\* to "cache", fetches no page and leaves the cache file as it was.
C1_CacheHit ==
    [][\A p \in Procs :
          (/\ StartedBy(p)
           /\ ~StartReq(p).force_refresh
           /\ cache.st = "ok"
           /\ cache.rec.max_pages_request >= StartReq(p).max_pages)
          => (/\ pc'[p] = "idle"
              /\ ret'.by = p
              /\ ret'.kind = "cached"
              /\ ret'.record = [cache.rec EXCEPT !.source = "cache"]
              /\ ret'.fetches = 0
              /\ fetches'[p] = 0
              /\ cache' = cache)]_vars

\* C1 witness: a non-empty entry was served to a request for a smaller depth
C1_Witness ==
    /\ ret.kind = "cached"
    /\ ~ret.req.force_refresh
    /\ ret.record.count > 0
    /\ ret.req.max_pages < ret.record.max_pages_request
    /\ ret.record.source = "cache"
    /\ cache.st = "ok" /\ cache.rec.source = "scrape"

\* C2 (as claimed): a scrape request overwrites the cache entry exactly when
\* there is no entry, force_refresh is set, the requested depth exceeds the
\* stored one or the file is unreadable; otherwise it leaves the file alone.
C2_OverwriteIff ==
    [][\A p \in Procs :
          (ret' # ret /\ ret'.by = p)
          => LET r == ret'.req
                 must == \/ cache.st = "none"
                         \/ r.force_refresh
                         \/ cache.st = "ok"
                            /\ r.max_pages > cache.rec.max_pages_request
                         \/ cache.st = "bad"
                 wrote == /\ ret'.kind = "scraped"
                          /\ cache' = [st |-> "ok", rec |-> ret'.record]
             IN  (wrote <=> must) /\ (~must => cache' = cache)]_vars

\* C3 (as claimed): the max_pages_request of the cache entry never decreases.
C3_NeverDecreases ==
    [][(cache.st = "ok" /\ cache'.st = "ok")
          => cache'.rec.max_pages_request >= cache.rec.max_pages_request]_vars

\* C3 (amended): the max_pages_request of the cache entry never decreases,
\* except when the entry is overwritten by a request with force_refresh.
C3_NeverDecreasesUnforced ==
    [][(/\ cache.st = "ok"
        /\ cache'.st = "ok"
        /\ ~\E p \in Procs : /\ pc[p] = "write"
                             /\ pc'[p] = "idle"
                             /\ req[p].force_refresh)
          => cache'.rec.max_pages_request >= cache.rec.max_pages_request]_vars

\* C3 witness: a request without force_refresh is about to overwrite a
\* readable entry after fetching pages
C3_Witness ==
    \E p \in Procs :
        /\ pc[p] = "write"
        /\ ~req[p].force_refresh
        /\ cache.st = "ok"
        /\ req[p].max_pages > cache.rec.max_pages_request
        /\ cache.rec.max_pages_request >= 1
        /\ all_comments[p] # <<>>

\* C4 (as claimed): when the fetch of page 1 fails, the request does not
\* return a Deal record as a successful result.
C4_PageOneFailureSurfaces ==
    [][\A p \in Procs :
          (/\ pc[p] = "write"
           /\ page[p] = 1
           /\ fetches[p] = 1
           /\ response[p].kind = "fail"
           /\ pc'[p] = "idle")
          => ~(ret'.by = p /\ ret'.kind = "scraped")]_vars

\* C5 (as claimed): on a failure of the extraction path (fetch failure after
\* page 1, missing marker, unparsable payload, payload that is not an array)
\* the scrape does not raise: the loop stops with the comments accumulated
\* from the earlier pages.
C5_NoExtractionErrorEscapes ==
    [][\A p \in Procs :
          (/\ Iterated(p)
           /\ \/ page[p] > 1 /\ response'[p].kind = "fail"
              \/ /\ response'[p].kind = "ok"
                 /\ response'[p].payload \in {"nomarker", "badjson", "scalar", "dict"})
          => (/\ pc'[p] = "write"
              /\ all_comments'[p] = all_comments[p])]_vars

\* no two entries of a comment list have the same (author, date, text)
NoDupTriples(cs) ==
    \A i, j \in DOMAIN cs :
        i # j => <<cs[i].author, cs[i].date, cs[i].text>>
                 # <<cs[j].author, cs[j].date, cs[j].text>>

\* C6: no record produced by a scrape (returned, written to the cache or
\* being accumulated) holds two comments with the same (author, date, text),
\* whatever page or shape they came from.
C6_NoDuplicateTriples ==
    /\ cache.st = "ok" => NoDupTriples(cache.rec.comments)
    /\ ret.kind \in {"cached", "scraped"} => NoDupTriples(ret.record.comments)
    /\ \A p \in Procs : NoDupTriples(all_comments[p])

\* C6 witness: page 1 was Doc1 (a Main and a Featured object with one triple)
\* and page 2 Doc2 (which repeats a comment of Doc1): 4 of 6 candidates kept
C6_Witness ==
    /\ ret.kind = "scraped"
    /\ ret.record.deal_title = <<"T">>
    /\ ret.record.count = 4
    /\ \E i \in DOMAIN ret.record.comments : ret.record.comments[i].type = "Featured"

\* C7: when the fetch of a page p > 1 ends at a URL whose page parameter is
\* not p or is missing, the loop stops without raising, adds no comment,
\* has made exactly p fetches and makes no more, and the record returned
\* holds exactly the comments accumulated from pages 1..p-1.
C7_RedirectStop ==
    [][\A p \in Procs :
          /\ (/\ Iterated(p)
              /\ page[p] > 1
              /\ Redirected(page[p], response'[p]))
             => (/\ pc'[p] = "write"
                 /\ all_comments'[p] = all_comments[p]
                 /\ fetches'[p] = page[p])
          /\ (/\ pc[p] = "write"
              /\ page[p] > 1
              /\ fetches[p] = page[p]
              /\ Redirected(page[p], response[p]))
             => StaysStopped(p)]_vars

\* C7 witness: the fetch of page 2 was redirected after page 1 gave comments
C7_Witness ==
    \E p \in Procs :
        /\ pc[p] = "write"
        /\ page[p] = 2
        /\ fetches[p] = 2
        /\ Redirected(2, response[p])
        /\ all_comments[p] # <<>>

\* C8: when the extractor finds no new comment on page p (no key outside the
\* running dedup set), the loop stops at p, the aggregate is unchanged, and
\* no page above p is fetched.
C8_DuplicatePageStop ==
    [][\A p \in Procs :
          /\ (/\ Iterated(p)
              /\ response'[p].kind = "ok"
              /\ ~(page[p] > 1 /\ Redirected(page[p], response'[p]))
              /\ response'[p].payload \in IterableNames
              /\ ExtractPage(Body(response'[p].payload),
                             seen_comments_hashes[p]).new = 0)
             => (/\ pc'[p] = "write"
                 /\ all_comments'[p] = all_comments[p]
                 /\ fetches'[p] = page[p])
          /\ (/\ pc[p] = "write"
              /\ fetches[p] = page[p]
              /\ response[p].kind = "ok"
              /\ response[p].payload \in IterableNames)
             => StaysStopped(p)]_vars

\* C8 witness: page 2 served Doc1 again after page 1 served Doc1
C8_Witness ==
    \E p \in Procs :
        /\ pc[p] = "write"
        /\ page[p] = 2
        /\ req[p].max_pages > 2
        /\ response[p] = [kind |-> "ok", qs |-> "int", final |-> 2, payload |-> "doc1"]
        /\ deal_title[p] = <<"T">>
        /\ Len(all_comments[p]) = 2

\* C9: every Deal record returned by a scrape request or held in the cache
\* file has count = len(comments), also after summary writes of the chat.
C9_CountIsLength ==
    /\ cache.st = "ok" => cache.rec.count = Len(cache.rec.comments)
    /\ ret.kind \in {"cached", "scraped"}
          => ret.record.count = Len(ret.record.comments)

\* C9 witness: a record with comments that the chat has attached a summary to
\* and that was then served from the cache
C9_Witness ==
    /\ cache.st = "ok"
    /\ HasSummary(cache.rec)
    /\ cache.rec.count >= 2
    /\ ret.kind = "cached"
    /\ ret.record.deal_summary = cache.rec.deal_summary

\* C10 (as claimed): resolve returns data[index] when index is an integer
\* with 0 <= index < len(data), and absent for every other index value,
\* booleans included.
C10_ResolverBounds ==
    LET d == resolved.data
        i == resolved.index
    IN  IF i.t = "int" /\ 0 <= i.n /\ i.n < Len(d)
        THEN resolved.result = d[i.n + 1]
        ELSE resolved.result = JNull

\* the step belongs to a scrape_comments call
ScrapeStep == \E p \in Procs : pc[p] # "idle" \/ StartedBy(p)

\* C11 (as claimed): a deal_summary attached to the cache entry is still in
\* the entry after any step of a later scrape request.
C11_SummaryPreserved ==
    [][(/\ cache.st = "ok"
        /\ cache.rec.deal_summary # <<>>
        /\ ScrapeStep)
          => (/\ cache'.st = "ok"
              /\ cache'.rec.deal_summary = cache.rec.deal_summary)]_vars

\* C11 (amended): a deal_summary attached to the cache entry is kept by every
\* step of a scrape request except the write of a fresh scrape (which stores
\* a record without it), and a request served from the cache returns it.
C11_SummaryPreservedUnlessRescraped ==
    [][(/\ cache.st = "ok"
        /\ cache.rec.deal_summary # <<>>
        /\ ScrapeStep
        /\ ~\E p \in Procs : pc[p] = "write" /\ pc'[p] = "idle")
          => (/\ cache'.st = "ok"
              /\ cache'.rec.deal_summary = cache.rec.deal_summary
              /\ \A p \in Procs :
                    (StartedBy(p) /\ pc'[p] = "idle")
                    => ret'.record.deal_summary = cache.rec.deal_summary)]_vars

\* C11 witness: an entry with a summary was served from the cache, summary
\* included, and is still in the file
C11_Witness ==
    /\ ret.kind = "cached"
    /\ ret.req.max_pages >= 1
    /\ ret.record.deal_summary \in {<<t>> : t \in SummaryTexts}
    /\ cache.st = "ok"
    /\ cache.rec.deal_summary = ret.record.deal_summary
    /\ cache.rec.comments # <<>>

Range(seq) == {seq[i] : i \in DOMAIN seq}

\* the step is an iteration of p's page loop that reaches the comment loop
\* with an iterable payload
Extracted(p) ==
    /\ Iterated(p)
    /\ ~FetchStops(page[p], response'[p])
    /\ ~ParseStops(response'[p])
    /\ ~IterationRaises(response'[p])

\* the comments a payload offers, in document order: per object the Featured
\* one, then the Main one
RECURSIVE CandidatesFrom(_, _)
CandidatesFrom(data, i) ==
    IF i > Len(data) THEN <<>>
    ELSE (IF IsFeatured(data[i]) THEN <<FeaturedComment(data, data[i])>> ELSE <<>>)
         \o (IF IsMain(data[i]) THEN <<MainComment(data, data[i])>> ELSE <<>>)
         \o CandidatesFrom(data, i + 1)

Candidates(data) == CandidatesFrom(data, 1)

Triple(c) == <<c.author, c.date, c.text>>

\* the candidates whose (author, date, text) differs from every earlier one
RECURSIVE KeepNovel(_, _)
KeepNovel(cands, earlier) ==
    IF cands = <<>> THEN <<>>
    ELSE IF Triple(Head(cands)) \in earlier
         THEN KeepNovel(Tail(cands), earlier)
         ELSE <<Head(cands)>>
              \o KeepNovel(Tail(cands), earlier \cup {Triple(Head(cands))})

\* C12: every comment a page offers whose (author, date, text) differs from
\* that of every comment extracted earlier in the same scrape is appended to
\* the scrape's comments.
C12_NovelNeverDropped ==
    [][\A p \in Procs :
          Extracted(p)
          => all_comments'[p] =
                all_comments[p]
                \o KeepNovel(Candidates(Body(response'[p].payload)),
                             {Triple(c) : c \in Range(all_comments[p])})]_vars

\* C13: the n-th fetch of a scrape is of page n; the loop goes on to page
\* n + 1 only from an iteration that extracted page n and appended at least
\* one new comment; each iteration appends exactly its page's new comments
\* to the comments of the pages before it, so the result is the
\* concatenation in page order of the new comments of pages 1..k; and once
\* the loop has stopped no page is fetched and the comments stay as they are.
C13_PageOrder ==
    [][\A p \in Procs :
          /\ Iterated(p)
             => /\ page[p] = fetches[p] + 1
                /\ page[p] <= req[p].max_pages
                /\ all_comments'[p] =
                      IF Extracted(p)
                      THEN all_comments[p]
                           \o ExtractPage(Body(response'[p].payload),
                                          seen_comments_hashes[p]).page_comments
                      ELSE all_comments[p]
                /\ pc'[p] = "loop"
                   => /\ Extracted(p)
                      /\ page'[p] = page[p] + 1
                      /\ Len(all_comments'[p]) > Len(all_comments[p])
          /\ pc[p] = "loop" => (Iterated(p) \/ UNCHANGED locals)
          /\ pc[p] = "write" => StaysStopped(p)
          /\ pc[p] = "raise" => (fetches'[p] <= fetches[p] /\ pc'[p] # "loop")]_vars

\* C13 witness: three pages were fetched in order and each contributed
C13_Witness ==
    \E p \in Procs :
        /\ pc[p] = "write"
        /\ page[p] = 3
        /\ fetches[p] = 3
        /\ Len(all_comments[p]) = 7
        /\ all_comments[p][1].text = JStr(<<"x">>)
        /\ all_comments[p][6].text = JStr(<<"a">>)

\* C14: every scrape request ends as Cached or as Scraped, after at most
\* max_pages page fetches (none when max_pages <= 0), whatever the server
\* returned.
C14_EndsCachedOrScraped ==
    /\ \A p \in Procs :
          /\ pc[p] \in {"idle", "loop", "write"}
          /\ fetches[p] <= (IF req[p].max_pages > 0 THEN req[p].max_pages ELSE 0)
    /\ ret.kind \in {"none", "cached", "scraped"}
    /\ ret.fetches <= (IF ret.req.max_pages > 0 THEN ret.req.max_pages ELSE 0)

RECURSIVE KeepNewKeys(_, _)
KeepNewKeys(cands, seen) ==
    IF cands = <<>> THEN <<>>
    ELSE IF CommentKey(Head(cands)) \in seen
         THEN KeepNewKeys(Tail(cands), seen)
         ELSE <<Head(cands)>>
              \o KeepNewKeys(Tail(cands), seen \cup {CommentKey(Head(cands))})

\* C16: every object of the payload is tested for both shapes, in document
\* order: an object with the Featured and the Main fields offers a Featured
\* comment followed by a Main comment, an object of neither shape offers
\* none, and each offered comment passes the dedup test on its own.
C16_BothShapes ==
    [][\A p \in Procs :
          Extracted(p)
          => LET cands == Candidates(Body(response'[p].payload))
             IN  /\ all_comments'[p] =
                       all_comments[p] \o KeepNewKeys(cands, seen_comments_hashes[p])
                 /\ seen_comments_hashes'[p] =
                       seen_comments_hashes[p]
                       \cup {CommentKey(c) : c \in Range(cands)}]_vars

\* C16 witness: one object of both shapes gave a Featured comment and then a
\* Main comment
C16_Witness ==
    \E p \in Procs :
        /\ pc[p] \in {"loop", "write"}
        /\ response[p].payload = "doc2"
        /\ Len(all_comments[p]) = 3
        /\ all_comments[p][1].type = "Featured"
        /\ all_comments[p][1].text = JStr(<<"f">>)
        /\ all_comments[p][2].type = "Main"
        /\ all_comments[p][2].text = JStr(<<"m">>)
        /\ all_comments[p][1].author = all_comments[p][2].author

\* idx is a reference into data: an integer within [0, len(data))
IsReference(data, idx) == idx.t = "int" /\ 0 <= idx.n /\ idx.n < Len(data)

\* text is what the two-level rule gives for the text field idx
TextAsClaimed(data, idx, text) ==
    IF ~IsReference(data, idx) THEN text = JStr(<<>>)
    ELSE LET target == data[idx.n + 1]
         IN  IF IsDict(target) /\ HasKey(target, "htmlContent")
             THEN LET inner == Get(target, "htmlContent")
                  IN  text = IF IsReference(data, inner)
                             THEN OrEmpty(data[inner.n + 1])
                             ELSE JStr(<<>>)
             ELSE IsStr(target) => text = target

\* C17: for both shapes the text of a comment is: the value its text field
\* resolves to when that is a string; the value the htmlContent field of the
\* resolved object resolves to (the empty string when absent) when the text
\* field resolves to an object with htmlContent; the empty string when the
\* text field does not resolve.
C17_TwoLevelText ==
    [][\A p \in Procs :
          Extracted(p)
          => LET data == Body(response'[p].payload)
             IN  \A i \in DOMAIN data :
                    /\ IsFeatured(data[i])
                       => TextAsClaimed(data, Get(data[i], "commentText"),
                                        FeaturedComment(data, data[i]).text)
                    /\ IsMain(data[i])
                       => TextAsClaimed(data, Get(data[i], "commentContent"),
                                        MainComment(data, data[i]).text)]_vars

\* C18: deal_title and deal_description are what the metadata extractor
\* finds in page 1's payload (empty when it finds nothing usable, and empty
\* when page 1 was not parsed); no iteration for a later page changes them,
\* and the record returned carries them; the comments of page 1 are
\* extracted whatever the metadata extractor found, and the loop goes on to
\* page 2 when they are new and more pages were asked for.  On a payload
\* that cannot be iterated the metadata block's own error is swallowed and
\* control still reaches the comment loop of line 382.
C18_MetadataFromPageOne ==
    [][\A p \in Procs :
          /\ (Iterated(p) /\ page[p] = 1)
             => LET data == Body(response'[p].payload)
                IN  /\ deal_title'[p] =
                          IF Extracted(p) THEN ExtractMeta(data).deal_title ELSE <<>>
                    /\ deal_description'[p] =
                          IF Extracted(p) THEN ExtractMeta(data).deal_description
                          ELSE <<>>
                    /\ Extracted(p)
                       => /\ all_comments'[p] = ExtractPage(data, {}).page_comments
                          /\ (all_comments'[p] # <<>> /\ req[p].max_pages > 1)
                             => (pc'[p] = "loop" /\ page'[p] = 2)
          /\ (/\ Iterated(p)
              /\ ~FetchStops(page[p], response'[p])
              /\ ~ParseStops(response'[p])
              /\ IterationRaises(response'[p]))
             => pc'[p] = "raise"
          /\ (Iterated(p) /\ page[p] > 1)
             => /\ deal_title'[p] = deal_title[p]
                /\ deal_description'[p] = deal_description[p]
          /\ (pc[p] = "write" /\ pc'[p] = "idle")
             => /\ ret'.record.deal_title = deal_title[p]
                /\ ret'.record.deal_description = deal_description[p]]_vars

\* C18 witness: page 1 gave no metadata but three comments, page 2 carried a
\* title and gave three more comments, and the title is still empty
C18_Witness ==
    \E p \in Procs :
        /\ pc[p] \in {"loop", "write"}
        /\ fetches[p] = 2
        /\ response[p].payload = "doc2"
        /\ ExtractMeta(Body(response[p].payload)).deal_title = <<"U">>
        /\ deal_title[p] = <<>>
        /\ deal_description[p] = <<>>
        /\ Len(all_comments[p]) = 6

\* C19: every scrape request that is not served from the cache ends by
\* overwriting the cache file with exactly the record it returns, however
\* its page loop stopped; when no page was fetched successfully that record
\* has no comments, also over an entry that had some.
C19_MissEndsWithWrite ==
    [][\A p \in Procs :
          (pc[p] # "idle" /\ pc'[p] = "idle")
          => /\ ret'.by = p
             /\ ret'.kind = "scraped"
             /\ cache' = [st |-> "ok", rec |-> ret'.record]
             /\ ret'.record.comments = all_comments[p]
             /\ ret'.record.count = Len(all_comments[p])
             /\ (page[p] = 1 /\ response[p].kind = "fail")
                => ret'.record.count = 0]_vars

\* C20: the max_pages_request a scrape writes is the max_pages of its
\* request, however many pages it fetched; so a later request without
\* force_refresh that asks for no more than that depth is served the stored
\* record, partial or not, from the cache without any fetch.
C20_DepthAsRequested ==
    [][\A p \in Procs :
          /\ (pc[p] = "write" /\ pc'[p] = "idle")
             => /\ cache'.st = "ok"
                /\ cache'.rec.max_pages_request = req[p].max_pages
                /\ ret'.record.max_pages_request = req[p].max_pages
          /\ (/\ StartedBy(p)
              /\ ~StartReq(p).force_refresh
              /\ cache.st = "ok"
              /\ StartReq(p).max_pages <= cache.rec.max_pages_request)
             => /\ pc'[p] = "idle"
                /\ ret'.kind = "cached"
                /\ ret'.fetches = 0
                /\ ret'.record.comments = cache.rec.comments
                /\ ret'.record.max_pages_request = cache.rec.max_pages_request
                /\ cache' = cache]_vars

\* C20 witness: a request for three pages was served from the cache a record
\* of depth three that holds no comment at all
C20_Witness ==
    /\ ret.kind = "cached"
    /\ ~ret.req.force_refresh
    /\ ret.req.max_pages = 3
    /\ ret.fetches = 0
    /\ ret.record.max_pages_request = 3
    /\ ret.record.count = 0
    /\ cache.st = "ok"
    /\ cache.rec.comments = <<>>

=============================================================================
